---- MODULE Spec2Model ----
(***************************************************************************)
(* The real-time call orchestration core of ai-caller:                     *)
(*   DeepgramSTTClient  (src/unnamed/part_001, lines 33-216)               *)
(*   CallOrchestrator   (src/unnamed/part_001, lines 300-703)              *)
(* Every action is one synchronous segment of the JavaScript code: a       *)
(* public operation or an event handler from its entry to its first await  *)
(* (or its return), or the continuation that runs when an awaited promise  *)
(* settles.  Session and transcription-client objects live in two heaps    *)
(* (sessions, stt) indexed by the order of creation, because closures and  *)
(* suspended calls keep references to objects that the registry maps may   *)
(* no longer hold.                                                         *)
(***************************************************************************)
EXTENDS Integers, Sequences, FiniteSets, TLC

\* ------------------------------------------------------------ bounds
MaxTicks == 2        \* clock advances in one run
TickMs == 300500     \* milliseconds per clock advance
MaxEndCalls == 2     \* explicit endCall invocations in one run
MaxTasks == 2        \* calls suspended at an await at one time
MaxHist == 3         \* history / summary length up to which a conversation grows
MaxFrames == 2       \* frames one synthesis stream delivers at most
MaxLongHist == 12    \* history length up to which a long conversation grows

\* The limits of a scenario: sessions made, clock advances, the history and
\* summary length up to which a conversation grows, suspended calls, frames
\* per synthesis stream, explicit endCall invocations.
Lifecycle == [sessions |-> 2, ticks |-> MaxTicks, hist |-> 1, tasks |-> MaxTasks,
              frames |-> 1, endCalls |-> MaxEndCalls]
Conversation == [sessions |-> 1, ticks |-> 1, hist |-> MaxHist, tasks |-> 2,
                 frames |-> 1, endCalls |-> 1]
Playback == [sessions |-> 1, ticks |-> 0, hist |-> 3, tasks |-> 2,
             frames |-> MaxFrames, endCalls |-> 1]
LongCall == [sessions |-> 1, ticks |-> 0, hist |-> MaxLongHist, tasks |-> 1,
             frames |-> 1, endCalls |-> 1]
Pair == [sessions |-> 2, ticks |-> 0, hist |-> 2, tasks |-> 2,
         frames |-> 1, endCalls |-> 1]

\* ------------------------------------------------- program constants
SILENCE_THRESHOLD_MS == 1500
MAX_CALL_DURATION_SEC == 600
CREDITS_PER_MINUTE == 5
maxReconnectAttempts == 3
HistoryWindow == 10
TokensPerCredit == 100

CallIds == {"c1"}
\* the call identifiers the maps of the orchestrator are modelled over
AllCallIds == {"c1", "c2"}
NoTime == -1                        \* undefined timestamp
NoSession == 0                      \* Map.get(callId) === undefined

\* Agent configurations handed to initializeSession (AgentConfig): the
\* fallback utterance is any string, the empty one included.
Agents == {[greeting |-> "greet", fallbackMessage |-> "fallback"],
           [greeting |-> "greet", fallbackMessage |-> ""]}

\* Deployments: which provider credentials the process was started with.
Envs == {[stt |-> TRUE,  openai |-> TRUE,  tts |-> TRUE],
         [stt |-> FALSE, openai |-> TRUE,  tts |-> TRUE],
         [stt |-> TRUE,  openai |-> FALSE, tts |-> TRUE],
         [stt |-> TRUE,  openai |-> TRUE,  tts |-> FALSE]}

\* completion.usage.total_tokens (absent usage counts as 0)
TokenChoices == {0, 150}

VARIABLES
  now,             \* Date.now()
  env,             \* provider credentials (fixed for the process)
  sessions,        \* heap of CallSession objects, in creation order
  stt,             \* heap of DeepgramSTTClient objects (stt[i] was made for sessions[i])
  initCalls,       \* initCalls[i]: where the initializeSession call that made sessions[i] is
  activeSessions,  \* Map<callId, CallSession>
  sttClients,      \* Map<callId, DeepgramSTTClient>
  audioBuffers,    \* Map<callId, AudioBuffer>   (TRUE: has an entry)
  ttsQueue,        \* Map<callId, Buffer[]>      (<<"absent">> or <<"present", queue>>)
  tasks,           \* suspended async calls, in the order they were suspended
  ticks,           \* clock advances so far
  endCalls,        \* explicit endCall invocations so far
  endReturns,      \* log: what each endCall invocation returned
  callEndedLog,    \* log: callEndedLog[i] = reasons of the callEnded events of sessions[i]
  meter,           \* log: meter[i] = the charges made to sessions[i], by kind
  last             \* log: the last operation and the events it emitted

vars == <<now, env, sessions, stt, initCalls, activeSessions, sttClients,
          audioBuffers, ttsQueue, tasks, ticks, endCalls, endReturns,
          callEndedLog, meter, last>>

\* ------------------------------------------------------------ helpers
CeilDiv(a, b) == (a + b - 1) \div b          \* Math.ceil(a / b), a >= 0
FloorDiv(a, b) == a \div b                   \* Math.floor(a / b), a >= 0

\* Array.prototype.slice(-n)
SliceLast(s, n) ==
  IF Len(s) <= n THEN s ELSE SubSeq(s, Len(s) - n + 1, Len(s))

\* String.prototype.trim() on the transcript texts
Trim(text) == IF text = " " THEN "" ELSE text

RemoveAt(s, i) == SubSeq(s, 1, i - 1) \o SubSeq(s, i + 1, Len(s))

Turn(role, content) == [role |-> role, content |-> content]

buildSystemPrompt(agent) == <<"prompt", agent.fallbackMessage>>

NewSession(callId, agent) ==
  [callId |-> callId,
   agent |-> agent,
   conversationHistory |-> <<Turn("system", buildSystemPrompt(agent))>>,
   creditsUsed |-> 0,
   startTime |-> now,
   isSpeaking |-> FALSE,
   isListening |-> FALSE,
   silenceStart |-> NoTime,
   transcriptSummary |-> << >>]

\* new DeepgramSTTClient(): ws is the state of the socket this.ws refers to
\* ("null" when this.ws is null); old is the state of a socket the client
\* has let go of but whose events still reach the client's handlers; timers
\* counts the pending reconnect timeouts and delay is the delay of the one
\* set last.  Log fields: disconnects counts the disconnect() calls and
\* failures the sockets lost (close code other than 1000) since the last
\* "open".
NewSTTConnecting ==
  [ws |-> "connecting", isConnected |-> FALSE, reconnectAttempts |-> 0,
   timers |-> 0, delay |-> 0, old |-> "none", disconnects |-> 0, failures |-> 0]

NewSTT ==
  [ws |-> "null",
   isConnected |-> FALSE,
   reconnectAttempts |-> 0,
   timers |-> 0,
   delay |-> 0,
   old |-> "none",
   disconnects |-> 0,
   failures |-> 0]

Op(name, c, emits) == [op |-> name, c |-> c, emits |-> emits]

Init ==
  /\ now = 1
  /\ env \in Envs
  /\ sessions = << >>
  /\ stt = << >>
  /\ initCalls = << >>
  /\ activeSessions = [c \in AllCallIds |-> NoSession]
  /\ sttClients = [c \in AllCallIds |-> NoSession]
  /\ audioBuffers = [c \in AllCallIds |-> FALSE]
  /\ ttsQueue = [c \in AllCallIds |-> <<"absent">>]
  /\ tasks = << >>
  /\ ticks = 0
  /\ endCalls = 0
  /\ endReturns = << >>
  /\ callEndedLog = << >>
  /\ meter = << >>
  /\ last = Op("init", "", << >>)

\* ------------------------------------------------------------- clock
Tick(L) ==
  /\ ticks < L.ticks
  /\ sessions # << >>
  /\ ticks' = ticks + 1
  /\ now' = now + TickMs
  /\ last' = Op("tick", "", << >>)
  /\ UNCHANGED <<env, meter, sessions, stt, initCalls, activeSessions,
                 sttClients, audioBuffers, ttsQueue, tasks, endCalls,
                 endReturns, callEndedLog>>

\* ------------------------------------------- DeepgramSTTClient.connect
\* connect(): isConfigured() holds (the callers below check it), the
\* configuration is stored and a new WebSocket replaces this.ws.
SttConnect(client) == [client EXCEPT !.ws = "connecting"]

\* CallOrchestrator.initializeSession up to `await stt.connect(...)`; with
\* the transcription provider unconfigured there is no await and the call
\* returns in the same step.
InitializeSession(c, agent, L) ==
  /\ Len(sessions) < L.sessions
  /\ sessions' = Append(sessions, NewSession(c, agent))
  /\ activeSessions' = [activeSessions EXCEPT ![c] = Len(sessions) + 1]
  /\ audioBuffers' = [audioBuffers EXCEPT ![c] = TRUE]
  /\ ttsQueue' = [ttsQueue EXCEPT ![c] = <<"present", << >> >>]
  /\ sttClients' = [sttClients EXCEPT ![c] = Len(sessions) + 1]
  /\ stt' = Append(stt, IF env.stt THEN SttConnect(NewSTT) ELSE NewSTT)
  /\ initCalls' = Append(initCalls, IF env.stt THEN "awaiting" ELSE "returned")
  /\ callEndedLog' = Append(callEndedLog, << >>)
  /\ meter' = Append(meter, [duration |-> 0, tokens |-> 0])
  /\ last' = Op("initializeSession", c,
                IF env.stt THEN << >> ELSE <<[ev |-> "sessionInitialized"]>>)
  /\ UNCHANGED <<now, env, tasks, ticks, endCalls, endReturns>>

\* ws "open" handler (lines 85-90); resolving the promise lets a waiting
\* initializeSession emit sessionInitialized and return (lines 369-370).
WsOpen(s) ==
  /\ stt[s].ws = "connecting"
  /\ stt' = [stt EXCEPT ![s].ws = "open", ![s].isConnected = TRUE,
                        ![s].reconnectAttempts = 0, ![s].failures = 0]
  /\ initCalls' = [initCalls EXCEPT ![s] = IF @ = "awaiting" THEN "returned" ELSE @]
  /\ last' = Op("wsOpen", sessions[s].callId,
                IF initCalls[s] = "awaiting"
                  THEN <<[ev |-> "sessionInitialized"]>> ELSE << >>)
  /\ UNCHANGED <<now, env, meter, sessions, activeSessions, sttClients, audioBuffers,
                 ttsQueue, tasks, ticks, endCalls, endReturns, callEndedLog>>

\* ws "close" handler (lines 96-105) for close code `code`.
OnWsClose(client, code) ==
  LET lost == [client EXCEPT !.isConnected = FALSE,
                             !.failures = IF code # 1000 THEN @ + 1 ELSE @]
  IN IF code # 1000 /\ client.reconnectAttempts < maxReconnectAttempts
       THEN [lost EXCEPT !.reconnectAttempts = @ + 1,
                         !.timers = @ + 1,
                         !.delay = 1000 * (client.reconnectAttempts + 1)]
       ELSE lost

\* ws "error" handler (lines 107-112): the promise of connect() is
\* rejected when the client is not connected; a rejected first connect
\* makes initializeSession throw out of line 362.
OnWsErrorInit(s) ==
  IF ~stt[s].isConnected /\ initCalls[s] = "awaiting" THEN "threw" ELSE initCalls[s]

\* The handshake of the current socket fails: "error", then "close" (1006).
WsFail(s) ==
  /\ stt[s].ws = "connecting"
  /\ stt' = [stt EXCEPT ![s] = OnWsClose([@ EXCEPT !.ws = "closed"], 1006)]
  /\ initCalls' = [initCalls EXCEPT ![s] = OnWsErrorInit(s)]
  /\ last' = Op("wsFail", sessions[s].callId, <<[ev |-> "sttError"]>>)
  /\ UNCHANGED <<now, env, meter, sessions, activeSessions, sttClients, audioBuffers,
                 ttsQueue, tasks, ticks, endCalls, endReturns, callEndedLog>>

\* The open socket is closed by the peer or the network.
WsClose(s, code) ==
  /\ stt[s].ws = "open"
  /\ stt' = [stt EXCEPT ![s] = OnWsClose([@ EXCEPT !.ws = "closed"], code)]
  /\ last' = Op("wsClose", sessions[s].callId, << >>)
  /\ UNCHANGED <<now, env, meter, sessions, initCalls, activeSessions, sttClients,
                 audioBuffers, ttsQueue, tasks, ticks, endCalls, endReturns,
                 callEndedLog>>

\* setTimeout(() => this.connect(this.currentConfig), ...) fires (line 103).
ReconnectTimer(s) ==
  /\ stt[s].timers > 0
  /\ stt' = [stt EXCEPT ![s] = SttConnect([@ EXCEPT !.timers = @ - 1])]
  /\ last' = Op("reconnectTimer", sessions[s].callId, << >>)
  /\ UNCHANGED <<now, env, meter, sessions, initCalls, activeSessions, sttClients,
                 audioBuffers, ttsQueue, tasks, ticks, endCalls, endReturns,
                 callEndedLog>>

\* DeepgramSTTClient.disconnect (lines 201-208).  ws.close(1000) on an open
\* socket starts the closing handshake, on a connecting socket it aborts
\* the handshake; either way the socket's events still arrive later.
SttDisconnect(client) ==
  IF client.ws = "null"
    THEN [client EXCEPT !.disconnects = @ + 1]
    ELSE [client EXCEPT !.disconnects = @ + 1,
                        !.old = CASE client.ws = "open" -> "closing"
                                  [] client.ws = "connecting" -> "aborting"
                                  [] OTHER -> @,
                        !.ws = "null",
                        !.isConnected = FALSE]

\* The socket released by disconnect() finishes closing: "close" (1000).
OldSocketClose(s) ==
  /\ stt[s].old = "closing"
  /\ stt' = [stt EXCEPT ![s] = OnWsClose([@ EXCEPT !.old = "none"], 1000)]
  /\ last' = Op("oldSocketClose", sessions[s].callId, << >>)
  /\ UNCHANGED <<now, env, meter, sessions, initCalls, activeSessions, sttClients,
                 audioBuffers, ttsQueue, tasks, ticks, endCalls, endReturns,
                 callEndedLog>>

\* The socket released by disconnect() while connecting: "error", "close" (1006).
OldSocketAbort(s) ==
  /\ stt[s].old = "aborting"
  /\ stt' = [stt EXCEPT ![s] = OnWsClose([@ EXCEPT !.old = "none"], 1006)]
  /\ initCalls' = [initCalls EXCEPT ![s] = OnWsErrorInit(s)]
  /\ last' = Op("oldSocketAbort", sessions[s].callId, <<[ev |-> "sttError"]>>)
  /\ UNCHANGED <<now, env, meter, sessions, activeSessions, sttClients, audioBuffers,
                 ttsQueue, tasks, ticks, endCalls, endReturns, callEndedLog>>

\* ------------------------------------------------- CallOrchestrator.endCall
\* the most recent session made for callId c (0: none yet)
LatestSession(c) ==
  LET made == {i \in 1..Len(sessions) : sessions[i].callId = c}
  IN IF made = {} THEN NoSession ELSE CHOOSE i \in made : \A j \in made : j <= i

EmptyStats == [durationSec |-> 0, creditsUsed |-> 0, transcriptSummary |-> << >>]

\* endCall clearing the whole map of clients instead of deleting one key
EndCallSttClientsAll(c) == [b \in DOMAIN sttClients |-> NoSession]

\* endCall without `this.sttClients.delete(callId)`: the map keeps the client
EndCallSttClientsKept(c) == sttClients

\* endCall lines 643-648: the client the map holds for c after the call
EndCallSttClients(c) == [sttClients EXCEPT ![c] = NoSession]

\* endCall lines 643-648: the client heap after the call
EndCallStt(c) ==
  IF sttClients[c] # NoSession
    THEN [stt EXCEPT ![sttClients[c]] = SttDisconnect(@)]
    ELSE stt

\* endCall lines 650-656: the call suspended at `await signalwire.endCall`
EndCallTask(c, reason) ==
  LET session == sessions[activeSessions[c]]
  IN [kind |-> "end", c |-> c, sid |-> activeSessions[c], reason |-> reason,
      durationSec |-> FloorDiv(now - session.startTime, 1000),
      transcriptSummary |-> session.transcriptSummary]

\* endCall(callId, reason) from its entry to its await (lines 638-656), or
\* to its return when the call identifier has no session (lines 639-641).
EndCall(c, reason, L) ==
  /\ endCalls < L.endCalls
  /\ endCalls' = endCalls + 1
  /\ IF activeSessions[c] = NoSession
       THEN /\ endReturns' = Append(endReturns,
                 [c |-> c, sid |-> LatestSession(c), stats |-> EmptyStats])
            /\ UNCHANGED <<stt, sttClients, tasks>>
       ELSE /\ Len(tasks) < L.tasks
            /\ stt' = EndCallStt(c)
            /\ sttClients' = EndCallSttClients(c)
            /\ tasks' = Append(tasks, EndCallTask(c, reason))
            /\ UNCHANGED endReturns
  /\ last' = Op("endCall", c, << >>)
  /\ UNCHANGED <<now, env, meter, sessions, initCalls, activeSessions, audioBuffers,
                 ttsQueue, ticks, callEndedLog>>

\* endCall lines 674-678: the stats the suspended call i returns
EndCallStats(i) ==
  [durationSec |-> tasks[i].durationSec,
   creditsUsed |-> sessions[tasks[i].sid].creditsUsed,
   transcriptSummary |-> tasks[i].transcriptSummary]

\* endCall without the try/catch around `await signalwire.endCall`: a
\* rejected request ends the call's continuation at line 656
EndCallResumeRethrow(i, telephony) ==
  /\ i \in 1..Len(tasks)
  /\ tasks[i].kind = "end"
  /\ IF telephony = "failed"
       THEN /\ last' = [op |-> "endCallResume", c |-> tasks[i].c,
                        telephony |-> telephony, emits |-> << >>]
            /\ UNCHANGED <<activeSessions, audioBuffers, ttsQueue, callEndedLog,
                           endReturns>>
       ELSE /\ activeSessions' = [activeSessions EXCEPT ![tasks[i].c] = NoSession]
            /\ audioBuffers' = [audioBuffers EXCEPT ![tasks[i].c] = FALSE]
            /\ ttsQueue' = [ttsQueue EXCEPT ![tasks[i].c] = <<"absent">>]
            /\ callEndedLog' = [callEndedLog EXCEPT
                                  ![tasks[i].sid] = Append(@, tasks[i].reason)]
            /\ endReturns' = Append(endReturns,
                  [c |-> tasks[i].c, sid |-> tasks[i].sid, stats |-> EndCallStats(i)])
            /\ last' = [op |-> "endCallResume", c |-> tasks[i].c,
                        telephony |-> telephony,
                        emits |-> <<[ev |-> "callEnded", reason |-> tasks[i].reason,
                                     durationSec |-> tasks[i].durationSec,
                                     creditsUsed |-> sessions[tasks[i].sid].creditsUsed]>>]
  /\ tasks' = RemoveAt(tasks, i)
  /\ UNCHANGED <<now, env, meter, sessions, stt, initCalls, sttClients, ticks, endCalls>>

\* endCall after `await signalwire.endCall(callId)` settled, fulfilled or
\* rejected (lines 657-678).
EndCallResume(i, telephony) ==
  /\ i \in 1..Len(tasks)
  /\ tasks[i].kind = "end"
  /\ activeSessions' = [activeSessions EXCEPT ![tasks[i].c] = NoSession]
  /\ audioBuffers' = [audioBuffers EXCEPT ![tasks[i].c] = FALSE]
  /\ ttsQueue' = [ttsQueue EXCEPT ![tasks[i].c] = <<"absent">>]
  /\ callEndedLog' = [callEndedLog EXCEPT ![tasks[i].sid] = Append(@, tasks[i].reason)]
  /\ endReturns' = Append(endReturns,
        [c |-> tasks[i].c, sid |-> tasks[i].sid, stats |-> EndCallStats(i)])
  /\ tasks' = RemoveAt(tasks, i)
  /\ last' = [op |-> "endCallResume", c |-> tasks[i].c, telephony |-> telephony,
              emits |-> <<[ev |-> "callEnded", reason |-> tasks[i].reason,
                           durationSec |-> tasks[i].durationSec,
                           creditsUsed |-> sessions[tasks[i].sid].creditsUsed]>>]
  /\ UNCHANGED <<now, env, meter, sessions, stt, initCalls, sttClients, ticks, endCalls>>

\* ------------------------------------- CallOrchestrator.handleAudioInput
\* detectVoiceActivity (lines 471-480) over frames of two bytes: the mean
\* of |byte - 128| against the threshold 10.
Frames == {<<118, 138>>, <<128, 150>>}
AbsDiff(a, b) == IF a >= b THEN a - b ELSE b - a
detectVoiceActivity(audioData) ==
  LET sum == AbsDiff(audioData[1], 128) + AbsDiff(audioData[2], 128)
  IN sum > 10 * Len(audioData)              \* sum / length > 10

\* handleBargeIn (lines 482-491) on the session object
BargeInSession(session) == [session EXCEPT !.isSpeaking = FALSE]

\* the silence check of handleAudioInput (lines 458-465)
SilenceCheck(session) ==
  IF /\ session.silenceStart # NoTime
     /\ now - session.silenceStart > SILENCE_THRESHOLD_MS
     /\ ~session.isSpeaking
    THEN [session EXCEPT !.silenceStart = NoTime]
    ELSE session

\* updateCallCredits lines 592-594: Math.ceil(durationSec / 60) * rate,
\* with durationSec = (Date.now() - startTime) / 1000
DurationCredits(session) ==
  CeilDiv(now - session.startTime, 60 * 1000) * CREDITS_PER_MINUTE

\* updateCallCredits without the `newCredits > session.creditsUsed` test
UpdateCreditsAssign(session) ==
  [session EXCEPT !.creditsUsed = DurationCredits(session)]

\* updateCallCredits lines 596-605 on the session object
UpdateCredits(session) ==
  IF DurationCredits(session) > session.creditsUsed
    THEN [session EXCEPT !.creditsUsed = DurationCredits(session)]
    ELSE session

\* updateCallCredits line 608
MaxDurationReached(session) ==
  now - session.startTime >= MAX_CALL_DURATION_SEC * 1000

\* handleAudioInput without the test of the transcription client
FrameAcceptedAnySession(c) == activeSessions[c] # NoSession

\* handleAudioInput lines 436-440: the frame is processed at all
FrameAccepted(c) ==
  /\ activeSessions[c] # NoSession
  /\ sttClients[c] # NoSession
  /\ stt[sttClients[c]].isConnected

\* the playback loops a barge-in on session sid interrupts learn of it at
\* the next frame their stream delivers (bargedBefore is a log field)
MarkBargeIn(ts, sid) ==
  [i \in 1..Len(ts) |->
     IF ts[i].kind = "play" /\ ts[i].sid = sid /\ ts[i].bargedBefore = 0
       THEN [ts[i] EXCEPT !.bargedBefore = ts[i].delivered + 1]
       ELSE ts[i]]

HandleAudioInput(c, audioData, L) ==
  LET sid == activeSessions[c]
      session == sessions[sid]
      barge == session.isSpeaking /\ detectVoiceActivity(audioData)
      s1 == IF barge THEN BargeInSession(session) ELSE session
      s2 == SilenceCheck(s1)
      s3 == UpdateCredits(s2)
      delta == s3.creditsUsed - s2.creditsUsed
      ending == MaxDurationReached(s3)
      t1 == IF barge THEN MarkBargeIn(tasks, sid) ELSE tasks
      emits == (IF barge THEN <<[ev |-> "bargeIn"]>> ELSE << >>)
               \o (IF delta > 0 THEN <<[ev |-> "creditsDeducted", credits |-> delta]>>
                               ELSE << >>)
  IN IF ~FrameAccepted(c)
       THEN /\ last' = [op |-> "handleAudioInput", c |-> c, accepted |-> FALSE,
                        voice |-> detectVoiceActivity(audioData),
                        emits |-> << >>]
            /\ UNCHANGED <<now, env, meter, sessions, stt, initCalls, activeSessions,
                           sttClients, audioBuffers, ttsQueue, tasks, ticks,
                           endCalls, endReturns, callEndedLog>>
       ELSE /\ ending => Len(tasks) < L.tasks
            /\ sessions' = [sessions EXCEPT ![sid] = s3]
            /\ ttsQueue' = IF barge THEN [ttsQueue EXCEPT ![c] = <<"present", << >> >>]
                                    ELSE ttsQueue
            /\ stt' = IF ending THEN EndCallStt(c) ELSE stt
            /\ sttClients' = IF ending THEN EndCallSttClients(c) ELSE sttClients
            /\ tasks' = IF ending THEN Append(t1, EndCallTask(c, "max_duration")) ELSE t1
            /\ meter' = [meter EXCEPT ![sid].duration = DurationCredits(session)]
            /\ last' = [op |-> "handleAudioInput", c |-> c, accepted |-> TRUE,
                        voice |-> detectVoiceActivity(audioData),
                        emits |-> emits]
            /\ UNCHANGED <<now, env, initCalls, activeSessions, audioBuffers,
                           ticks, endCalls, endReturns, callEndedLog>>

\* --------------------------------------- CallOrchestrator.speakResponse
\* speakResponse(callId, text) up to the first frame request (lines
\* 550-567), or to its return when the session is gone or speech synthesis
\* is unconfigured (lines 551, 557-561, 583-584): the session heap after it
SpeakSessions(ss, c) ==
  IF activeSessions[c] = NoSession THEN ss
  ELSE [ss EXCEPT ![activeSessions[c]].isSpeaking = env.tts]

\* the playback loop it leaves suspended, if any
SpeakTasks(c) ==
  IF activeSessions[c] # NoSession /\ env.tts
    THEN <<[kind |-> "play", c |-> c, sid |-> activeSessions[c],
            delivered |-> 0, forwarded |-> 0, bargedBefore |-> 0]>>
    ELSE << >>

\* speakResponse announcing no end when speech synthesis is unconfigured
SpeakEmitsNoEnd(c, text) ==
  IF activeSessions[c] = NoSession THEN << >>
  ELSE IF env.tts THEN <<[ev |-> "aiSpeaking", text |-> text]>>
  ELSE <<[ev |-> "aiSpeaking", text |-> text], [ev |-> "ttsNotConfigured"]>>

\* the events it emits
SpeakEmits(c, text) ==
  IF activeSessions[c] = NoSession THEN << >>
  ELSE IF env.tts THEN <<[ev |-> "aiSpeaking", text |-> text]>>
  ELSE <<[ev |-> "aiSpeaking", text |-> text], [ev |-> "ttsNotConfigured"],
         [ev |-> "aiFinishedSpeaking"]>>

\* The synthesis stream of playback loop i delivers its next frame (lines
\* 567-579); a loop that finds isSpeaking false leaves through `finally`.
PlayChunk(i, L) ==
  /\ tasks[i].kind = "play"
  /\ tasks[i].delivered < L.frames
  /\ IF sessions[tasks[i].sid].isSpeaking
       THEN /\ tasks' = [tasks EXCEPT ![i].delivered = @ + 1, ![i].forwarded = @ + 1]
            /\ last' = Op("playChunk", tasks[i].c, <<[ev |-> "audioOutput"]>>)
            /\ UNCHANGED sessions
       ELSE /\ tasks' = RemoveAt(tasks, i)
            /\ sessions' = [sessions EXCEPT ![tasks[i].sid].isSpeaking = FALSE]
            /\ last' = Op("playChunk", tasks[i].c, <<[ev |-> "aiFinishedSpeaking"]>>)
  /\ UNCHANGED <<now, env, meter, stt, initCalls, activeSessions, sttClients,
                 audioBuffers, ttsQueue, ticks, endCalls, endReturns, callEndedLog>>

\* The synthesis stream of playback loop i ends, normally or with an error
\* (lines 580-585).
PlayEnd(i, how) ==
  /\ tasks[i].kind = "play"
  /\ tasks' = RemoveAt(tasks, i)
  /\ sessions' = [sessions EXCEPT ![tasks[i].sid].isSpeaking = FALSE]
  /\ last' = Op("playEnd", tasks[i].c,
                (IF how = "error" THEN <<[ev |-> "ttsError"]>> ELSE << >>)
                \o <<[ev |-> "aiFinishedSpeaking"]>>)
  /\ UNCHANGED <<now, env, meter, stt, initCalls, activeSessions, sttClients,
                 audioBuffers, ttsQueue, ticks, endCalls, endReturns, callEndedLog>>

\* ------------------------------------------ CallOrchestrator.sendGreeting
SendGreeting(c, L) ==
  /\ LET sid == activeSessions[c]
         greeting == sessions[sid].agent.greeting
         s1 == [sessions EXCEPT
                  ![sid].conversationHistory = Append(@, Turn("assistant", greeting)),
                  ![sid].transcriptSummary = Append(@, <<"AI", greeting>>)]
     IN IF sid = NoSession
          THEN /\ last' = Op("sendGreeting", c, << >>)
               /\ UNCHANGED <<sessions, tasks>>
          ELSE /\ Len(sessions[sid].conversationHistory) < L.hist
               /\ Len(sessions[sid].transcriptSummary) < L.hist
               /\ Len(tasks) + Len(SpeakTasks(c)) <= L.tasks
               /\ sessions' = SpeakSessions(s1, c)
               /\ tasks' = tasks \o SpeakTasks(c)
               /\ last' = Op("sendGreeting", c, SpeakEmits(c, greeting))
  /\ UNCHANGED <<now, env, meter, stt, initCalls, activeSessions, sttClients,
                 audioBuffers, ttsQueue, ticks, endCalls, endReturns, callEndedLog>>

\* ------------------------------------------------ transcription events
\* "transcript" handler (lines 402-410) on the session the handler captured
OnTranscript(session) ==
  [session EXCEPT !.silenceStart = NoTime, !.isListening = TRUE]

\* "speechEnd" handler (lines 422-425)
OnSpeechEnd(session) ==
  [session EXCEPT !.isListening = FALSE, !.silenceStart = now]

\* generateResponse sending the whole history
recentHistoryAll(session) == session.conversationHistory

\* generateResponse line 524: the history sent to the Turn Generator
recentHistory(session) == SliceLast(session.conversationHistory, HistoryWindow)

\* A socket of client s delivers a Results message with a non-empty
\* transcript (handleMessage lines 121-135): the client emits "transcript",
\* then "finalTranscript" or "interimTranscript", then "speechEnd" when the
\* message is speech-final.  The "finalTranscript" handler (lines 412-420)
\* runs processUserInput (lines 496-507) and generateResponse up to the
\* request to the Turn Generator (lines 521-531).
TranscriptResult(s, text, isFinal, speechFinal, L) ==
  LET c == sessions[s].callId
      final == isFinal /\ Trim(text) # ""
      target == activeSessions[c]
      turn == final /\ target # NoSession
      s1 == [sessions EXCEPT ![s] = OnTranscript(@)]
      s2 == IF final
              THEN [s1 EXCEPT ![s].transcriptSummary = Append(@, <<"User", text>>)]
              ELSE s1
      s3 == IF turn
              THEN [s2 EXCEPT ![target].conversationHistory =
                                 Append(@, Turn("user", text))]
              ELSE s2
      s4 == IF speechFinal THEN [s3 EXCEPT ![s] = OnSpeechEnd(@)] ELSE s3
  IN /\ stt[s].ws = "open" \/ stt[s].old = "closing"
     /\ final => Len(sessions[s].transcriptSummary) < L.hist
     /\ turn => /\ Len(sessions[target].conversationHistory) < L.hist
                /\ Len(tasks) < L.tasks
     /\ sessions' = s4
     /\ tasks' = IF turn
                   THEN Append(tasks, [kind |-> "turn", c |-> c, sid |-> target])
                   ELSE tasks
     /\ last' = [op |-> "transcript", c |-> c, final |-> final,
                 request |-> IF turn THEN recentHistory(s3[target]) ELSE << >>,
                 emits |-> << >>]
     /\ UNCHANGED <<now, env, meter, stt, initCalls, activeSessions, sttClients,
                    audioBuffers, ttsQueue, ticks, endCalls, endReturns,
                    callEndedLog>>

\* What the Turn Generator may answer: a completion with content and a
\* token count, or a failure (provider error; getOpenAI throwing because
\* the credentials are missing, lines 250-258).
Completions ==
  {[ok |-> TRUE, content |-> ct, tokens |-> tk] :
      ct \in {"reply", ""}, tk \in TokenChoices}
  \cup {[ok |-> FALSE]}

\* generateResponse lines 535-537 on the session object
ChargeTokens(session, tokens) ==
  [session EXCEPT !.creditsUsed = @ + CeilDiv(tokens, TokensPerCredit)]

\* generateResponse returning no text when the Turn Generator fails
ResponseTextNoFallback(session, completion) ==
  IF completion.ok /\ completion.content # "" THEN completion.content ELSE ""

\* generateResponse lines 533-543: the text it returns
ResponseText(session, completion) ==
  IF completion.ok /\ completion.content # ""
    THEN completion.content
    ELSE session.agent.fallbackMessage

\* processUserInput lines 510-515 on the session object
AppendAssistant(session, response) ==
  [session EXCEPT
     !.conversationHistory = Append(@, Turn("assistant", response)),
     !.transcriptSummary = Append(@, <<"AI", response>>)]

\* The Turn Generator request of suspended turn i settles: the rest of
\* generateResponse (lines 533-543) and of processUserInput (lines 508-518),
\* with speakResponse up to its first await.
GenComplete(i, completion) ==
  LET t == tasks[i]
      session == sessions[t.sid]
      charged == IF completion.ok THEN ChargeTokens(session, completion.tokens)
                                  ELSE session
      response == ResponseText(session, completion)
      s1 == [sessions EXCEPT ![t.sid] = charged]
      s2 == [sessions EXCEPT ![t.sid] = AppendAssistant(charged, response)]
      rest == RemoveAt(tasks, i)
      failed == ~completion.ok \/ completion.content = ""
  IN /\ t.kind = "turn"
     /\ env.openai \/ ~completion.ok
     /\ meter' = IF completion.ok
                   THEN [meter EXCEPT ![t.sid].tokens =
                           @ + CeilDiv(completion.tokens, TokensPerCredit)]
                   ELSE meter
     /\ IF response = ""
          THEN /\ sessions' = s1
               /\ tasks' = rest
               /\ last' = [op |-> "genComplete", c |-> t.c, sid |-> t.sid,
                           failed |-> failed,
                           spoke |-> << >>,
                           emits |-> IF completion.ok THEN << >>
                                     ELSE <<[ev |-> "aiError"]>>]
          ELSE /\ sessions' = SpeakSessions(s2, t.c)
               /\ tasks' = rest \o SpeakTasks(t.c)
               /\ last' = [op |-> "genComplete", c |-> t.c, sid |-> t.sid,
                           failed |-> failed,
                           spoke |-> <<response>>,
                           emits |-> (IF completion.ok THEN << >>
                                      ELSE <<[ev |-> "aiError"]>>)
                                     \o SpeakEmits(t.c, response)]
     /\ UNCHANGED <<now, env, stt, initCalls, activeSessions, sttClients,
                    audioBuffers, ttsQueue, ticks, endCalls, endReturns,
                    callEndedLog>>

Sids == 1..Len(sessions)
TaskIds == 1..Len(tasks)
Texting == CHOOSE a \in Agents : a.fallbackMessage # ""

\* ------------------------------------------------------ specifications
\* Spec: the life cycle of the sessions of one call identifier, with the
\* transcription provider configured or not: creation (twice at most), the
\* first connection, the clock, inbound audio, termination by request and
\* by the duration ceiling, and the events of the released socket.
InitLifecycle == Init /\ env.openai /\ env.tts

Next ==
  \/ Tick(Lifecycle)
  \/ \E c \in CallIds : InitializeSession(c, Texting, Lifecycle)
  \/ \E s \in Sids : WsOpen(s)
  \/ \E s \in Sids : OldSocketClose(s)
  \/ \E s \in Sids : OldSocketAbort(s)
  \/ \E s \in Sids : ReconnectTimer(s)
  \/ \E c \in CallIds, f \in Frames : HandleAudioInput(c, f, Lifecycle)
  \/ \E c \in CallIds : EndCall(c, "completed", Lifecycle)
  \/ \E i \in TaskIds, t \in {"ok", "failed"} : EndCallResume(i, t)

Spec == InitLifecycle /\ [][Next]_vars

\* SpecTalk: one session in conversation, with the transcription and the
\* synthesis provider configured and the Turn Generator configured or not:
\* transcripts, turn generation, the greeting, playback and barge-in,
\* metering and termination.
InitTalk == Init /\ env.stt /\ env.tts

\* Results messages: <<transcript, is_final, speech_final>>
TalkMessages == {<<"hi", TRUE, TRUE>>, <<" ", TRUE, TRUE>>, <<"hi", FALSE, FALSE>>}

NextTalk ==
  \/ Tick(Conversation)
  \/ \E c \in CallIds, a \in Agents : InitializeSession(c, a, Conversation)
  \/ \E s \in Sids : WsOpen(s)
  \/ \E s \in Sids : OldSocketClose(s)
  \/ \E c \in CallIds, f \in Frames : HandleAudioInput(c, f, Conversation)
  \/ \E s \in Sids, m \in TalkMessages :
        TranscriptResult(s, m[1], m[2], m[3], Conversation)
  \/ \E i \in TaskIds, cp \in Completions : GenComplete(i, cp)
  \/ \E i \in TaskIds : PlayChunk(i, Conversation)
  \/ \E i \in TaskIds, how \in {"done", "error"} : PlayEnd(i, how)
  \/ \E c \in CallIds : SendGreeting(c, Conversation)
  \/ \E c \in CallIds : EndCall(c, "completed", Conversation)
  \/ \E i \in TaskIds, t \in {"ok", "failed"} : EndCallResume(i, t)

SpecTalk == InitTalk /\ [][NextTalk]_vars

\* SpecPlay: the utterances of one session, every provider configured:
\* greetings and replies, their playback loops, and inbound audio.
InitPlay == Init /\ env.stt /\ env.openai /\ env.tts

NextPlay ==
  \/ \E c \in CallIds : InitializeSession(c, Texting, Playback)
  \/ \E s \in Sids : WsOpen(s)
  \/ \E c \in CallIds, f \in Frames : HandleAudioInput(c, f, Playback)
  \/ \E s \in Sids : TranscriptResult(s, "hi", TRUE, TRUE, Playback)
  \/ \E i \in TaskIds : GenComplete(i, [ok |-> TRUE, content |-> "reply", tokens |-> 150])
  \/ \E i \in TaskIds : PlayChunk(i, Playback)
  \/ \E i \in TaskIds, how \in {"done", "error"} : PlayEnd(i, how)
  \/ \E c \in CallIds : SendGreeting(c, Playback)

SpecPlay == InitPlay /\ [][NextPlay]_vars

\* SpecSpeak: the utterances of one session as in SpecPlay, with the
\* synthesis provider configured or not.
InitSpeak == Init /\ env.stt /\ env.openai

SpecSpeak == InitSpeak /\ [][NextPlay]_vars

\* SpecLong: one long conversation, turn after turn, every provider
\* configured.
LongCompletions == {[ok |-> TRUE, content |-> "reply", tokens |-> 0], [ok |-> FALSE]}

NextLong ==
  \/ \E c \in CallIds : InitializeSession(c, Texting, LongCall)
  \/ \E s \in Sids : WsOpen(s)
  \/ \E s \in Sids, x \in {"hi", "bye"} : TranscriptResult(s, x, TRUE, TRUE, LongCall)
  \/ \E i \in TaskIds, cp \in LongCompletions : GenComplete(i, cp)
  \/ \E i \in TaskIds : PlayChunk(i, LongCall)
  \/ \E i \in TaskIds : PlayEnd(i, "done")
  \/ \E c \in CallIds : SendGreeting(c, LongCall)

SpecLong == InitPlay /\ [][NextLong]_vars

\* SpecStt: one session whose transcription stream fails: the handshake
\* fails, the open socket is lost, the reconnect timeouts fire, while
\* frames arrive and the call is ended.
Faults == [sessions |-> 1, ticks |-> 1, hist |-> 1, tasks |-> 1,
           frames |-> 1, endCalls |-> 1]

NextStt ==
  \/ Tick(Faults)
  \/ \E c \in CallIds : InitializeSession(c, Texting, Faults)
  \/ \E s \in Sids : WsOpen(s)
  \/ \E s \in Sids : WsFail(s)
  \/ \E s \in Sids, code \in {1000, 1006} : WsClose(s, code)
  \/ \E s \in Sids : ReconnectTimer(s)
  \/ \E s \in Sids : OldSocketClose(s)
  \/ \E s \in Sids : OldSocketAbort(s)
  \/ \E c \in CallIds, f \in Frames : HandleAudioInput(c, f, Faults)
  \/ \E c \in CallIds : EndCall(c, "completed", Faults)
  \/ \E i \in TaskIds, t \in {"ok", "failed"} : EndCallResume(i, t)

SpecStt == InitPlay /\ [][NextStt]_vars

\* SpecBarge: one session speaking while frames arrive, with the
\* transcription provider configured or not and its stream opening, lost
\* and reconnecting.
NextBarge ==
  \/ \E c \in CallIds : InitializeSession(c, Texting, Playback)
  \/ \E s \in Sids : WsOpen(s)
  \/ \E s \in Sids : WsClose(s, 1006)
  \/ \E s \in Sids : ReconnectTimer(s)
  \/ \E c \in CallIds, f \in Frames : HandleAudioInput(c, f, Playback)
  \/ \E i \in TaskIds : PlayChunk(i, Playback)
  \/ \E i \in TaskIds, how \in {"done", "error"} : PlayEnd(i, how)
  \/ \E c \in CallIds : SendGreeting(c, Playback)

SpecBarge == InitLifecycle /\ [][NextBarge]_vars

\* SpecTwo: two call identifiers side by side, every provider configured:
\* each one's session, stream, frames, transcripts, turns, greeting,
\* playback and termination.
NextTwo ==
  \/ \E c \in AllCallIds : InitializeSession(c, Texting, Pair)
  \/ \E s \in Sids : WsOpen(s)
  \/ \E c \in AllCallIds, f \in Frames : HandleAudioInput(c, f, Pair)
  \/ \E s \in Sids : TranscriptResult(s, "hi", TRUE, TRUE, Pair)
  \/ \E i \in TaskIds, cp \in Completions : GenComplete(i, cp)
  \/ \E i \in TaskIds : PlayChunk(i, Pair)
  \/ \E i \in TaskIds, how \in {"done", "error"} : PlayEnd(i, how)
  \/ \E c \in AllCallIds : SendGreeting(c, Pair)
  \/ \E c \in AllCallIds : EndCall(c, "completed", Pair)
  \/ \E i \in TaskIds, t \in {"ok", "failed"} : EndCallResume(i, t)

SpecTwo == InitPlay /\ [][NextTwo]_vars

\* ---------------------------------------------------------- properties
\* C1: ending a session is idempotent -- any two endCall invocations for
\* the same session return the same {durationSec, creditsUsed,
\* transcriptSummary}, whether the second one starts after the first has
\* returned or while the first is suspended.
C1_EndCallIdempotent ==
  \A i, j \in 1..Len(endReturns) :
     (endReturns[i].sid # NoSession /\ endReturns[i].sid = endReturns[j].sid)
        => endReturns[i].stats = endReturns[j].stats

\* C2: the transcription client of every session is released (disconnect
\* invoked) at most once, and exactly once as soon as an endCall for the
\* session is under way or has emitted callEnded, however the endCall
\* invocations, the duration ceiling and the inbound frames interleave.
C2_ReleasedExactlyOnce ==
  \A s \in Sids :
     /\ stt[s].disconnects <= 1
     /\ (callEndedLog[s] # << >>
           \/ \E i \in TaskIds : tasks[i].kind = "end" /\ tasks[i].sid = s)
        => stt[s].disconnects = 1

\* C2 case: two terminations of one session, one by the duration ceiling
\* and one by request, have both completed and its client was released once.
C2_TwoTerminationsOneRelease ==
  \E s \in Sids :
     /\ stt[s].disconnects = 1
     /\ \E i, j \in 1..Len(callEndedLog[s]) :
           callEndedLog[s][i] = "max_duration" /\ callEndedLog[s][j] = "completed"

\* C3: a playback loop whose session was barged in before the stream
\* delivered frame k forwards at most k frames.
C3_BargeInBound ==
  \A i \in TaskIds :
     (tasks[i].kind = "play" /\ tasks[i].bargedBefore > 0)
        => tasks[i].forwarded <= tasks[i].bargedBefore

\* C4: the credit counter of every session is a natural number and no
\* step decreases it.
C4_CreditsMonotone ==
  [][/\ \A s \in 1..Len(sessions') : sessions'[s].creditsUsed \in Nat
     /\ \A s \in Sids : sessions'[s].creditsUsed >= sessions[s].creditsUsed]_vars

\* C4 case: an accepted frame found the counter above the duration charge
\* (turn charges were added since) and left it there.
C4_FrameBelowCounter ==
  /\ last.op = "handleAudioInput" /\ last.accepted
  /\ \E s \in Sids : /\ activeSessions[sessions[s].callId] = s
                     /\ meter[s].tokens > 0
                     /\ sessions[s].creditsUsed > DurationCredits(sessions[s])

\* C5: metering is additive -- the credit counter equals the duration
\* charge of the latest metered frame plus the sum of the turn charges
\* ceil(tokens / 100), in whatever order the charges were made.
C5_MeteringAdditive ==
  \A s \in Sids : sessions[s].creditsUsed = meter[s].duration + meter[s].tokens

\* C6: the duration ceiling holds in every mode -- after an inbound frame
\* for a session that is active (set up, not being ended by request) and
\* older than MAX_CALL_DURATION_SEC, its termination with reason
\* max_duration is under way.
C6_MaxDurationEveryMode ==
  \A c \in CallIds :
     LET sid == activeSessions[c]
     IN (/\ last.op = "handleAudioInput" /\ last.c = c
         /\ sid # NoSession
         /\ initCalls[sid] = "returned"
         /\ now - sessions[sid].startTime > MAX_CALL_DURATION_SEC * 1000
         /\ ~\E i \in TaskIds : /\ tasks[i].kind = "end" /\ tasks[i].sid = sid
                                /\ tasks[i].reason = "completed")
        => \E i \in TaskIds : /\ tasks[i].kind = "end" /\ tasks[i].sid = sid
                              /\ tasks[i].reason = "max_duration"

\* C7: a Turn Generator request carries the last min(10, n) entries of the
\* session's n-entry history, in order; the history itself keeps the older
\* entries, the system prompt first.
C7_RequestWindow ==
  \A c \in CallIds :
     (last.op = "transcript" /\ last.c = c /\ last.request # << >>)
        => LET h == sessions[activeSessions[c]].conversationHistory
               r == last.request
           IN /\ Len(r) <= 10
              /\ Len(r) = IF Len(h) < 10 THEN Len(h) ELSE 10
              /\ \A k \in 1..Len(r) : r[k] = h[Len(h) - Len(r) + k]
              /\ h[1].role = "system"

\* C7 case: a request made from a history of more than 10 entries.
C7_LongHistoryRequest ==
  /\ last.op = "transcript"
  /\ Len(last.request) = 10
  /\ \E s \in Sids : Len(sessions[s].conversationHistory) > 11

\* C8 as stated: whenever the Turn Generator fails (error, missing
\* credentials, empty completion) the fallback text is appended as an
\* assistant turn and spoken.
C8_FallbackAlways ==
  (last.op = "genComplete" /\ last.failed)
     => LET h == sessions[last.sid].conversationHistory
            fb == sessions[last.sid].agent.fallbackMessage
        IN /\ h[Len(h)] = Turn("assistant", fb)
           /\ last.spoke = <<fb>>

\* C8: when the Turn Generator fails for a session whose agent has a
\* non-empty fallback text, that text is appended to the history as an
\* assistant turn and handed to speakResponse (which announces it when the
\* session is live), and the step neither removes a session from the live
\* set nor starts a termination.
C8_FallbackOnFailure ==
  [][(/\ last'.op = "genComplete" /\ last'.failed
      /\ sessions[last'.sid].agent.fallbackMessage # "")
     => LET sid == last'.sid
            fb == sessions[sid].agent.fallbackMessage
        IN /\ sessions'[sid].conversationHistory =
                 Append(sessions[sid].conversationHistory, Turn("assistant", fb))
           /\ last'.spoke = <<fb>>
           /\ activeSessions[last'.c] # NoSession
                 => \E k \in 1..Len(last'.emits) :
                       last'.emits[k] = [ev |-> "aiSpeaking", text |-> fb]
           /\ activeSessions' = activeSessions
           /\ \A k \in 1..Len(tasks') : tasks'[k].kind # "end"
                 \/ \E j \in TaskIds : tasks[j] = tasks'[k]]_vars

\* C8 case: a failed generation of a live session answered by its fallback.
C8_FallbackSpoken ==
  /\ last.op = "genComplete" /\ last.failed
  /\ last.spoke = <<"fallback">>
  /\ activeSessions[last.c] = last.sid
  /\ \E k \in 1..Len(last.emits) : last.emits[k] = [ev |-> "aiError"]

\* C9: initializeSession for a call identifier that has a live session
\* leaves the registered session and its transcription client as they are.
C9_NoReinitialize ==
  [][\A c \in CallIds :
       (last'.op = "initializeSession" /\ last'.c = c
          /\ activeSessions[c] # NoSession)
       => /\ activeSessions'[c] = activeSessions[c]
          /\ sttClients'[c] = sttClients[c]
          /\ sessions' = sessions]_vars

\* C10: an inbound frame for a call identifier that has no session, or
\* whose session is still being set up or is being ended, changes nothing
\* and emits nothing.
C10_InactiveFrameIsNoOp ==
  [][\A c \in CallIds :
       LET sid == activeSessions[c]
           inactive == \/ sid = NoSession
                       \/ initCalls[sid] = "awaiting"
                       \/ \E i \in TaskIds : tasks[i].kind = "end" /\ tasks[i].sid = sid
       IN (last'.op = "handleAudioInput" /\ last'.c = c /\ inactive)
            => /\ UNCHANGED <<sessions, stt, initCalls, activeSessions, sttClients,
                              audioBuffers, ttsQueue, tasks, endReturns,
                              callEndedLog, meter>>
               /\ last'.emits = << >>]_vars

\* C10 case: a frame dropped for a session that is being ended and for
\* which a metered frame would have charged.
C10_FrameWhileEnding ==
  /\ last.op = "handleAudioInput" /\ ~last.accepted
  /\ \E c \in CallIds :
        /\ activeSessions[c] # NoSession
        /\ DurationCredits(sessions[activeSessions[c]])
              > sessions[activeSessions[c]].creditsUsed
        /\ \E i \in TaskIds : tasks[i].kind = "end" /\ tasks[i].sid = activeSessions[c]

\* C11: once an endCall for a session is under way or has completed, a
\* transcript event and the completion of a turn generation leave the
\* session (history, summary, flags, credit counter) as it was.
C11_NoChangeAfterEnding ==
  [][\A s \in Sids :
       (/\ last'.op \in {"transcript", "genComplete"}
        /\ \/ callEndedLog[s] # << >>
           \/ \E i \in TaskIds : tasks[i].kind = "end" /\ tasks[i].sid = s)
       => sessions'[s] = sessions[s]]_vars

\* C12: once callEnded was emitted for every session made for a call
\* identifier, no step emits an event for that call identifier.
C12_SilentAfterCallEnded ==
  [][(/\ Len(sessions') = Len(sessions)
      /\ \E s \in Sids : sessions[s].callId = last'.c
      /\ \A s \in Sids : sessions[s].callId = last'.c => callEndedLog[s] # << >>)
     => last'.emits = << >>]_vars

\* C13: no failure of a collaborator escapes a public operation as an
\* exception -- no initializeSession call ends by throwing.
C13_NoEscapingException ==
  \A s \in Sids : initCalls[s] # "threw"

\* C14: with the Turn Generator credentials missing, initializeSession
\* does not succeed and no session is live.
C14_FailFastWithoutGenerator ==
  ~env.openai =>
     /\ \A s \in Sids : initCalls[s] # "returned"
     /\ \A c \in CallIds : activeSessions[c] = NoSession

\* C15: a session is never left stuck -- when the transcription client of
\* a set-up session has used up its reconnect attempts and the program has
\* no step pending (no timeout, no socket event, no suspended call), the
\* session has been removed from the live set.
C15_NotStuck ==
  \A s \in Sids :
     (/\ initCalls[s] = "returned"
      /\ stt[s].reconnectAttempts = maxReconnectAttempts
      /\ stt[s].ws = "closed" /\ stt[s].timers = 0 /\ stt[s].old = "none"
      /\ tasks = << >>)
     => activeSessions[sessions[s].callId] # s

\* C16: bounded reconnect with linear backoff -- at most 3 reconnect
\* attempts in a row, the timeout set after the i-th loss in a row is i
\* seconds, after the loss that follows the third attempt no attempt is
\* pending or under way, and for a stream that had been open that loss
\* surfaces more to the orchestrator than the error every failed attempt
\* surfaces.
C16_BoundedReconnect ==
  \A s \in Sids :
     /\ stt[s].reconnectAttempts <= 3
     /\ stt[s].timers > 0 => stt[s].delay = 1000 * stt[s].failures
     /\ stt[s].failures > 3 => stt[s].timers = 0 /\ stt[s].ws # "connecting"
     /\ (/\ last.op = "wsFail" /\ last.c = sessions[s].callId
         /\ initCalls[s] = "returned" /\ stt[s].failures > 3)
        => last.emits # <<[ev |-> "sttError"]>>

\* C17: release is final -- a transcription client on which disconnect()
\* was called holds no socket and is not connected, ever after.
C17_ReleaseIsFinal ==
  \A s \in Sids :
     stt[s].disconnects > 0 => stt[s].ws = "null" /\ ~stt[s].isConnected

\* C18: agent-speaking-start and -end events come in pairs -- a step
\* emits at most one of each, a start without its end exactly when it
\* leaves a playback loop behind and an end without a start exactly when
\* a playback loop finishes (completion, early stop, synthesis error), so
\* that an unconfigured synthesis emits both at once; isSpeaking is false
\* when the end is emitted; sendGreeting on a live session emits one start,
\* carrying the configured greeting.
C18_SpeakingPairs ==
  [][LET starts == {k \in 1..Len(last'.emits) : last'.emits[k].ev = "aiSpeaking"}
         ends == {k \in 1..Len(last'.emits) : last'.emits[k].ev = "aiFinishedSpeaking"}
         loops(ts) == Cardinality({i \in 1..Len(ts) : ts[i].kind = "play"})
     IN /\ Cardinality(starts) <= 1 /\ Cardinality(ends) <= 1
        /\ Cardinality(starts) - Cardinality(ends) = loops(tasks') - loops(tasks)
        /\ ends # {} => \A s \in Sids : sessions[s].callId = last'.c
                                          => ~sessions'[s].isSpeaking
        /\ (last'.op = "sendGreeting" /\ activeSessions[last'.c] # NoSession)
             => \E k \in starts :
                   last'.emits[k].text = sessions[activeSessions[last'.c]].agent.greeting
    ]_vars

\* C18 case: a playback loop stopped early by a barge-in announces its end.
C18_EarlyStopAnnounced ==
  /\ last.op = "playChunk"
  /\ last.emits = <<[ev |-> "aiFinishedSpeaking"]>>
  /\ \A s \in Sids : ~sessions[s].isSpeaking

\* C19: transcripts are processed in delivery order -- the reply to an
\* utterance is in the history before the user turn of the next utterance,
\* so no two user turns are adjacent in a history.
C19_ReplyBeforeNextUtterance ==
  \A s \in Sids :
     LET h == sessions[s].conversationHistory
     IN \A k \in 1..(Len(h) - 1) : ~(h[k].role = "user" /\ h[k + 1].role = "user")

\* C20: the greeting takes effect at most once per session -- the history
\* and the summary of a session hold the greeting turn at most once.
C20_GreetingAtMostOnce ==
  \A s \in Sids :
     LET h == sessions[s].conversationHistory
         t == sessions[s].transcriptSummary
         g == sessions[s].agent.greeting
     IN /\ Cardinality({k \in 1..Len(h) : h[k] = Turn("assistant", g)}) <= 1
        /\ Cardinality({k \in 1..Len(t) : t[k] = <<"AI", g>>}) <= 1

\* C21: degraded mode -- with the transcription provider unconfigured an
\* initializeSession call returns in the same step with the session live,
\* its history the system prompt alone, zero credits and both flags false;
\* it reports sessionInitialized and nothing else, and no client ever holds
\* a socket or a reconnect timeout.
C21_DegradedMode ==
  [][~env.stt =>
       /\ \A s \in 1..Len(stt') : stt'[s].ws = "null" /\ stt'[s].timers = 0
       /\ last'.op = "initializeSession" =>
            LET sid == Len(sessions')
                session == sessions'[sid]
            IN /\ sid = Len(sessions) + 1
               /\ initCalls'[sid] = "returned"
               /\ activeSessions'[last'.c] = sid
               /\ session.conversationHistory =
                     <<Turn("system", buildSystemPrompt(session.agent))>>
               /\ session.creditsUsed = 0
               /\ ~session.isSpeaking /\ ~session.isListening
               /\ last'.emits = <<[ev |-> "sessionInitialized"]>>]_vars

\* C21 case: a session made without the transcription provider is live.
C21_DegradedSessionLive ==
  /\ ~env.stt
  /\ last.op = "initializeSession"
  /\ activeSessions[last.c] = Len(sessions)
  /\ initCalls[Len(sessions)] = "returned"

\* C22: a failure of the first connection attempt of a client is reported
\* by the failed connect alone -- it sets no reconnect timeout and starts
\* no reconnect attempt.
C22_NoReconnectAfterFirstFailure ==
  \A s \in Sids :
     initCalls[s] = "threw" =>
        /\ stt[s].timers = 0
        /\ stt[s].reconnectAttempts = 0
        /\ stt[s].ws \notin {"connecting", "open"}

\* C23: every increase of a session's credit counter is reported in the
\* same step by a creditsDeducted event carrying the increase.
C23_EveryChargeReported ==
  [][\A s \in Sids :
       sessions'[s].creditsUsed > sessions[s].creditsUsed
         => \E k \in 1..Len(last'.emits) :
               last'.emits[k] = [ev |-> "creditsDeducted",
                                 credits |-> sessions'[s].creditsUsed
                                               - sessions[s].creditsUsed]]_vars

\* C24: barge-in does not depend on the transcription stream -- after a
\* frame with voice activity for a session that is set up, the session is
\* not speaking.
C24_BargeInAnyStreamState ==
  \A c \in CallIds :
     (/\ last.op = "handleAudioInput" /\ last.c = c /\ last.voice
      /\ activeSessions[c] # NoSession
      /\ initCalls[activeSessions[c]] = "returned")
     => ~sessions[activeSessions[c]].isSpeaking

\* C25: termination completes whatever the telephony request answers --
\* a termination that reaches its telephony request computes the whole
\* seconds since the session started and the summary lines in order, and
\* when the request settles, fulfilled or rejected, the call identifier
\* leaves the live set with its buffers, callEnded is emitted and the stats
\* returned are that duration, the session's credit counter and that
\* summary.
C25_TerminationCompletes ==
  [][/\ (last'.op = "endCall" /\ Len(tasks') > Len(tasks))
          => LET session == sessions[activeSessions[last'.c]]
                 t == tasks'[Len(tasks')]
             IN /\ t.durationSec * 1000 <= now - session.startTime
                /\ now - session.startTime < (t.durationSec + 1) * 1000
                /\ t.transcriptSummary = session.transcriptSummary
     /\ last'.op = "endCallResume"
          => /\ activeSessions'[last'.c] = NoSession
             /\ ~audioBuffers'[last'.c]
             /\ ttsQueue'[last'.c] = <<"absent">>
             /\ Len(endReturns') = Len(endReturns) + 1
             /\ \E i \in 1..Len(tasks) :
                  /\ tasks[i].kind = "end" /\ tasks[i].c = last'.c
                  /\ Len(callEndedLog'[tasks[i].sid])
                       = Len(callEndedLog[tasks[i].sid]) + 1
                  /\ endReturns'[Len(endReturns')].stats
                       = [durationSec |-> tasks[i].durationSec,
                          creditsUsed |-> sessions'[tasks[i].sid].creditsUsed,
                          transcriptSummary |-> tasks[i].transcriptSummary]
                  /\ \E k \in 1..Len(last'.emits) :
                       /\ last'.emits[k].ev = "callEnded"
                       /\ last'.emits[k].durationSec = tasks[i].durationSec]_vars

\* C25 witness: a termination whose telephony request failed has returned
\* stats with a positive duration, a positive credit counter and a summary
\* line.
C25_FailedTelephonyStats ==
  /\ last.op = "endCallResume" /\ last.telephony = "failed"
  /\ Len(endReturns) > 0
  /\ endReturns[Len(endReturns)].stats.durationSec > 0
  /\ endReturns[Len(endReturns)].stats.creditsUsed > 0
  /\ Len(endReturns[Len(endReturns)].stats.transcriptSummary) > 0

\* C26: sessions are independent -- a step for call identifier A leaves,
\* for every other call identifier B, B's entries in the live set and the
\* per-call maps, B's session objects and transcription clients, and B's
\* suspended calls unchanged.
C26_SessionsIndependent ==
  [][\A b \in AllCallIds :
       (last'.c # "" /\ last'.c # b)
         => /\ activeSessions'[b] = activeSessions[b]
            /\ sttClients'[b] = sttClients[b]
            /\ audioBuffers'[b] = audioBuffers[b]
            /\ ttsQueue'[b] = ttsQueue[b]
            /\ \A s \in Sids :
                 sessions[s].callId = b
                   => sessions'[s] = sessions[s] /\ stt'[s] = stt[s]
            /\ LET Of(t) == t.c = b
               IN SelectSeq(tasks', Of) = SelectSeq(tasks, Of)]_vars

\* C26 witness: the termination of c1 has completed while the session of c2
\* is live, connected and speaking.
C26_OtherCallLive ==
  /\ last.op = "endCallResume" /\ last.c = "c1"
  /\ activeSessions["c2"] # NoSession
  /\ sttClients["c2"] # NoSession
  /\ stt[sttClients["c2"]].isConnected
  /\ sessions[activeSessions["c2"]].isSpeaking

\* C27: callEnded is emitted at most once for a session, whatever the
\* interleaving of endCall invocations, the max-duration trigger and frames
\* (each emission follows one telephony end-call request).
C27_CallEndedOnce ==
  \A s \in Sids : Len(callEndedLog[s]) <= 1

\* C28: at most one utterance is being played per session -- no session
\* has two playback loops at the same time.
C28_OneUtterancePlaying ==
  \A i, j \in TaskIds :
     (tasks[i].kind = "play" /\ tasks[j].kind = "play"
        /\ tasks[i].sid = tasks[j].sid) => i = j

\* C29: a failed initializeSession leaves no trace -- once the call has
\* thrown, its session is not in the live set and its call identifier has
\* no transcription client and no buffers, unless a later session of that
\* call identifier put them there.
C29_FailedBeginLeavesNoTrace ==
  \A s \in Sids :
     (initCalls[s] = "threw" /\ LatestSession(sessions[s].callId) = s)
        => /\ activeSessions[sessions[s].callId] = NoSession
           /\ sttClients[sessions[s].callId] = NoSession
           /\ ~audioBuffers[sessions[s].callId]
           /\ ttsQueue[sessions[s].callId] = <<"absent">>

\* C30: every Turn Generator request has the session's system-prompt turn
\* as its first entry and a user turn, the triggering utterance, as its
\* last entry, however long the conversation is.
C30_RequestFraming ==
  \A c \in CallIds :
     (last.op = "transcript" /\ last.c = c /\ last.request # << >>)
        => LET session == sessions[activeSessions[c]]
               r == last.request
           IN /\ r[1] = Turn("system", buildSystemPrompt(session.agent))
              /\ r[Len(r)].role = "user"
              /\ r[Len(r)] = session.conversationHistory[
                                Len(session.conversationHistory)]
====
